---- MODULE Spec2Model ----
(***************************************************************************)
(* Model of src/main.py: the YouTube downloader HTTP API.                  *)
(*                                                                         *)
(* State: the global video_cache (an insertion-ordered dict), the files of *)
(* the downloads folder, the uuid source and one request record per worker *)
(* thread.  One action per handler step.                                   *)
(*                                                                         *)
(* Representation:                                                         *)
(*  - a dict is the sequence of its items [key, val] in insertion order;   *)
(*  - str(uuid.uuid4()) is the next value of a counter (never repeated);   *)
(*  - a title is the sequence of its characters;                           *)
(*  - an option id is the sequence of its '_'-separated fields, the index  *)
(*    field being the decimal text of the index;                          *)
(*  - abr/resolution are the integers order_by sorts by, None is NoAttr.   *)
(***************************************************************************)
EXTENDS Integers, Sequences, FiniteSets, TLC

VARIABLES video_cache, disk, next_uuid, inserted, req, pinned

vars == <<video_cache, disk, next_uuid, inserted, req, pinned>>

-----------------------------------------------------------------------------
(* Bounds of the model *)

\* /info requests accepted in a run of Spec
MaxPuts == 2
\* /info requests accepted in a run of SpecFormats
MaxPutsFormats == 2
\* /info requests accepted in a run of SpecKinds
MaxPutsKinds == 1
\* /info requests accepted in a run of SpecDownloads
MaxPutsDownloads == 1
\* /info requests accepted in a run of SpecPuts
MaxPutsConc == 12
\* /info requests accepted in a run of SpecCache
MaxPutsCache == 12

\* Program constant: cache_youtube keeps the last 10 entries
CACHE_LIMIT == 10

NumProcs == 2
Procs == 1..NumProcs
\* worker threads used when requests do not overlap
SeqProcs == {1}
\* worker threads used when requests overlap
ConcProcs == {1, 2}

NoAttr == -1
NoId == 0

-----------------------------------------------------------------------------
(* Sequences *)

RECURSIVE Reverse(_)
Reverse(s) == IF s = <<>> THEN <<>> ELSE Reverse(Tail(s)) \o <<Head(s)>>

Min(a, b) == IF a < b THEN a ELSE b

\* the last n elements of s
LastN(s, n) == SubSeq(s, Len(s) - Min(n, Len(s)) + 1, Len(s))

-----------------------------------------------------------------------------
(* The insertion-ordered dict video_cache *)

Keys(d) == [i \in 1..Len(d) |-> d[i].key]

HasKey(d, k) == \E i \in 1..Len(d) : d[i].key = k

\* d.get(k): the value, or None
None == [title |-> <<>>, streams |-> <<>>, meta_ok |-> FALSE, none |-> TRUE]

DictGetLatest(d, k) == IF d = <<>> THEN None ELSE d[Len(d)].val

DictGet(d, k) ==
    IF HasKey(d, k) THEN d[CHOOSE i \in 1..Len(d) : d[i].key = k].val ELSE None

\* d[k] = v: an existing key keeps its position, a new key goes last
DictSetFront(d, k, v) == <<[key |-> k, val |-> v]>> \o d

DictSet(d, k, v) ==
    IF HasKey(d, k)
    THEN [i \in 1..Len(d) |-> IF d[i].key = k THEN [key |-> k, val |-> v] ELSE d[i]]
    ELSE Append(d, [key |-> k, val |-> v])

\* del d[k] for a key that is present
DictDel(d, k) == SelectSeq(d, LAMBDA e : e.key # k)

\* the cache after the lookup of a /formats or /download request:
\* get_cached_youtube leaves the dict as it is (dict.get, not dict.pop)
CacheAfterPop(d, k) == SelectSeq(d, LAMBDA e : e.key # k)

CacheAfterGet(d, k) == d

get_cached_youtube(cache_id) == DictGet(video_cache, cache_id)

\* len(video_cache) > 10
NeedsEvictLate(d) == Len(d) > CACHE_LIMIT + 1

NeedsEvict(d) == Len(d) > CACHE_LIMIT

\* next(iter(video_cache)): the first key in insertion order
NewestKey(d) == d[Len(d)].key

OldestKey(d) == d[1].key

-----------------------------------------------------------------------------
(* Streams and handles of the upstream library *)

\* kind: "audio" (audio only), "video" (video only), "progressive" (both)
Stream(itag, kind, ext, abr, resolution) ==
    [itag |-> itag, kind |-> kind, ext |-> ext, abr |-> abr, resolution |-> resolution]

Handle(title, streams, meta_ok) ==
    [title |-> title, streams |-> streams, meta_ok |-> meta_ok, none |-> FALSE]

IsNone(yt) == yt.none

\* a video with every kind of stream, with ties in abr and in resolution
VideoRich == Handle(<<"a", " ", "b", "!">>,
    << Stream(1, "progressive", "mp4", 1, 1),
       Stream(2, "video", "mp4", NoAttr, 2),
       Stream(3, "video", "webm", NoAttr, 3),
       Stream(4, "video", "mp4", NoAttr, 3),
       Stream(5, "audio", "mp4", 2, NoAttr),
       Stream(6, "audio", "webm", 2, NoAttr),
       Stream(7, "audio", "webm", 1, NoAttr) >>, TRUE)

\* a video that only has audio streams, one of them in an mp4 container
VideoAudioOnly == Handle(<<"a", "_", "b">>,
    << Stream(1, "audio", "mp4", 1, NoAttr),
       Stream(2, "audio", "webm", 2, NoAttr) >>, TRUE)

\* a video without audio-only streams
VideoNoAudio == Handle(<<"c">>,
    << Stream(1, "progressive", "mp4", 1, 1),
       Stream(2, "video", "mp4", NoAttr, 2) >>, TRUE)

\* a video whose metadata (title, author, ...) cannot be read
VideoNoMeta == Handle(<<"d">>,
    << Stream(1, "audio", "mp4", 1, NoAttr) >>, FALSE)

\* YouTube(processed_url) followed by yt.streams: the handle, or None when
\* the extraction raises
YouTube(url) ==
    CASE url = "rich" -> VideoRich
      [] url = "audioonly" -> VideoAudioOnly
      [] url = "noaudio" -> VideoNoAudio
      [] url = "nometa" -> VideoNoMeta
      [] OTHER -> None

Urls == {"rich", "nometa", "unavailable"}
CacheUrls == {"rich", "unavailable"}
KindsUrls == {"rich", "audioonly", "noaudio"}

\* StreamQuery.filter(...)
OnlyAudio(ss) == SelectSeq(ss, LAMBDA s : s.kind = "audio")
FileExtension(ss, ext) == SelectSeq(ss, LAMBDA s : s.ext = ext)
Progressive(ss) == SelectSeq(ss, LAMBDA s : s.kind = "progressive")
AdaptiveOnlyVideo(ss) == SelectSeq(ss, LAMBDA s : s.kind = "video")

Attr(s, name) == IF name = "abr" THEN s.abr ELSE s.resolution

\* sorted(...) is stable: x, which precedes the elements of t, goes before
\* the first element whose key is not smaller
RECURSIVE InsertBy(_, _, _)
InsertBy(x, t, name) ==
    IF t = <<>> THEN <<x>>
    ELSE IF Attr(x, name) <= Attr(Head(t), name) THEN <<x>> \o t
    ELSE <<Head(t)>> \o InsertBy(x, Tail(t), name)

RECURSIVE SortedBy(_, _)
SortedBy(ss, name) ==
    IF ss = <<>> THEN <<>> ELSE InsertBy(Head(ss), SortedBy(Tail(ss), name), name)

\* StreamQuery.order_by(name): drops the streams without the attribute
OrderBy(ss, name) == SortedBy(SelectSeq(ss, LAMBDA s : Attr(s, name) # NoAttr), name)

\* StreamQuery.desc()
DescForgotten(ss) == ss

Desc(ss) == Reverse(ss)

-----------------------------------------------------------------------------
(* Text <-> integer *)

\* str(i) inside f"{type}_{i}"
Str(i) ==
    CASE i = 0 -> "0" [] i = 1 -> "1" [] i = 2 -> "2" [] i = 3 -> "3"
      [] i = 4 -> "4" [] i = 5 -> "5" [] i = 6 -> "6" [] i = 7 -> "7"
      [] i = 8 -> "8" [] i = 9 -> "9"

\* int(text): ok is FALSE when int() raises ValueError
ParseInt(text) ==
    IF \E i \in 0..9 : Str(i) = text
    THEN [ok |-> TRUE, val |-> CHOOSE i \in 0..9 : Str(i) = text]
    ELSE IF \E i \in 1..9 : text = "-" \o Str(i)
    THEN [ok |-> TRUE, val |-> 0 - (CHOOSE i \in 1..9 : text = "-" \o Str(i))]
    ELSE [ok |-> FALSE, val |-> 0]

\* seq[index] of Python: a negative index counts from the end; ok is FALSE
\* when it raises IndexError
PyIndex(ss, index) ==
    IF index >= 0 /\ index < Len(ss) THEN [ok |-> TRUE, val |-> ss[index + 1]]
    ELSE IF index < 0 /\ 0 - index <= Len(ss)
    THEN [ok |-> TRUE, val |-> ss[Len(ss) + index + 1]]
    ELSE [ok |-> FALSE, val |-> Stream(0, "", "", NoAttr, NoAttr)]

\* str.lower() on the format types the clients send
Lower(t) == CASE t = "MP3" -> "mp3" [] t = "MP4" -> "mp4" [] t = "Mp4" -> "mp4" [] OTHER -> t

-----------------------------------------------------------------------------
(* File names *)

Alnum == {"a", "b", "c", "d"}

\* "".join(c for c in title if c.isalnum() or c in (' ', '.', '_', '-'))
KeepSafe(title) == SelectSeq(title, LAMBDA c : c \in Alnum \/ c \in {" ", ".", "_", "-"})

RECURSIVE LStrip(_)
LStrip(t) == IF t # <<>> /\ Head(t) = " " THEN LStrip(Tail(t)) ELSE t

\* str.strip()
Strip(t) == Reverse(LStrip(Reverse(LStrip(t))))

\* .replace(' ', '_')[:50]
SafeTitle(title) ==
    LET r == [i \in 1..Len(Strip(KeepSafe(title))) |->
                 IF Strip(KeepSafe(title))[i] = " " THEN "_" ELSE Strip(KeepSafe(title))[i]]
    IN  SubSeq(r, 1, Min(50, Len(r)))

\* a path in DOWNLOAD_FOLDER: prefix, base name, resolution suffix (NoAttr
\* when the name has none) and extension
Path(prefix, base, resolution, ext) ==
    [prefix |-> prefix, base |-> base, resolution |-> resolution, ext |-> ext]

NoPath == Path("", <<>>, NoAttr, "")

\* Stream.download(output_path, filename_prefix): prefix + title + extension
DownloadPath(yt, stream, prefix) == Path(prefix, yt.title, NoAttr, stream.ext)

\* os.path.splitext(file_path)[0] + ".mp3"
Mp3Path(path) == [path EXCEPT !.ext = "mp3"]

\* os.path.join(DOWNLOAD_FOLDER, f"{safe_title}_{resolution}.mp4")
OutputPath(yt, stream) == Path("", SafeTitle(yt.title), stream.resolution, "mp4")

-----------------------------------------------------------------------------
(* Stream selection of the handlers *)

\* get_video_info: the format types it reports
AvailableFormats(yt) ==
    (IF OnlyAudio(yt.streams) # <<>> THEN <<"mp3">> ELSE <<>>)
    \o (IF FileExtension(yt.streams, "mp4") # <<>> THEN <<"mp4">> ELSE <<>>)

\* get_format_options: the three sorted stream lists
FormatsAudioStreams(yt) == Desc(OrderBy(OnlyAudio(yt.streams), "abr"))
FormatsProgressiveStreams(yt) ==
    Desc(OrderBy(FileExtension(Progressive(yt.streams), "mp4"), "resolution"))
FormatsAdaptiveStreams(yt) ==
    Desc(OrderBy(FileExtension(AdaptiveOnlyVideo(yt.streams), "mp4"), "resolution"))

\* StreamOption(id=f"{type}_{i}", quality, type); itag records which stream
\* the option was built from
StreamOptions(ss, type, name) ==
    [i \in 1..Len(ss) |-> [id |-> <<type, Str(i - 1)>>, quality |-> Attr(ss[i], name),
                           type |-> type, itag |-> ss[i].itag]]

FormatOptions(yt, format_type) ==
    IF Lower(format_type) = "mp3"
    THEN StreamOptions(FormatsAudioStreams(yt), "audio", "abr")
    ELSE StreamOptions(FormatsProgressiveStreams(yt), "progressive", "resolution")
         \o StreamOptions(FormatsAdaptiveStreams(yt), "adaptive", "resolution")

\* download_selected: the three sorted stream lists
DownloadAudioStreamsAsc(yt) == OrderBy(OnlyAudio(yt.streams), "abr")

DownloadAudioStreams(yt) == Desc(OrderBy(OnlyAudio(yt.streams), "abr"))

DownloadProgressiveStreams(yt) ==
    Desc(OrderBy(FileExtension(Progressive(yt.streams), "mp4"), "resolution"))

DownloadAdaptiveStreams(yt) ==
    Desc(OrderBy(FileExtension(AdaptiveOnlyVideo(yt.streams), "mp4"), "resolution"))

\* the audio stream an adaptive download merges in; .first() of an empty
\* query is None (ok is FALSE)
WorstAudioStream(yt) == PyIndex(OrderBy(OnlyAudio(yt.streams), "abr"), 0)

BestAudioStream(yt) == PyIndex(Desc(OrderBy(OnlyAudio(yt.streams), "abr")), 0)

DownloadStreams(yt, option_type) ==
    CASE option_type = "audio" -> DownloadAudioStreams(yt)
      [] option_type = "progressive" -> DownloadProgressiveStreams(yt)
      [] option_type = "adaptive" -> DownloadAdaptiveStreams(yt)
      [] OTHER -> <<>>

\* merge_video_audio: True when ffmpeg exits with 0, False when
\* subprocess.run raises CalledProcessError
merge_video_audio_always(ffmpeg) == TRUE

merge_video_audio(ffmpeg) == ffmpeg = "ok"

\* an exception raised inside the try block of a handler, HTTPException
\* included, reaches "except Exception" and leaves as status 500
InfoError(status) == 500
FormatsError(status) == 500
DownloadError(status) == 500

-----------------------------------------------------------------------------
(* Requests *)

NoStream == Stream(0, "", "", NoAttr, NoAttr)

IdleReq ==
    [pc |-> "idle", op |-> "", url |-> "", cache_id |-> NoId, format_type |-> "",
     option_id |-> <<>>, status |-> 0, options |-> <<>>, available_formats |-> <<>>,
     keys |-> <<>>, file |-> NoPath, oldest_key |-> NoId, inserted_len |-> 0,
     removed |-> 0, selected |-> NoStream, audio_stream |-> NoStream,
     video_path |-> NoPath, audio_path |-> NoPath, output_path |-> NoPath,
     merges |-> 0, ffmpeg |-> "", yt |-> None]

\* a remembered /formats answer; puts is the number of insertions before it
NoPin == [cache_id |-> NoId, format_type |-> "", options |-> <<>>, puts |-> 0]

Ready(p) == req[p].pc \in {"idle", "done"}

Begin(op) == [IdleReq EXCEPT !.op = op]

Done(r, status) == [r EXCEPT !.pc = "done", !.status = status]

\* the cache ids a client can send: the unknown id and every id ever issued
ClientIds == 0..(next_uuid - 1)

Init ==
    /\ video_cache = <<>>
    /\ disk = {}
    /\ next_uuid = 1
    /\ inserted = <<>>
    /\ req = [p \in Procs |-> IdleReq]
    /\ pinned = NoPin

-----------------------------------------------------------------------------
(* What the clients send *)

FormatTypes == {"mp3", "MP4", "avi"}

OptionIds ==
    {<<"audio", i>> : i \in {"-1", "0", "1", "2", "3", "x"}}
    \cup {<<"progressive", i>> : i \in {"0", "1"}}
    \cup {<<"adaptive", i>> : i \in {"0", "1", "2"}}
    \cup {<<"video", "0">>, <<"audio">>, <<"audio", "0", "0">>}

\* the requests of a run: urls, number of accepted /info requests, worker
\* threads, option ids, format types, and whether /formats answers are pinned
Env(urls, maxPuts, procs, option_ids, format_types, pins) ==
    [urls |-> urls, maxPuts |-> maxPuts, procs |-> procs, option_ids |-> option_ids,
     format_types |-> format_types, pins |-> pins]

FullEnv == Env(Urls, MaxPuts, SeqProcs, OptionIds, FormatTypes, {FALSE})

FormatsEnv == Env(Urls, MaxPutsFormats, SeqProcs,
                  {<<"audio", "0">>, <<"adaptive", "0">>, <<"video", "0">>}, FormatTypes, BOOLEAN)

KindsEnv == Env(KindsUrls, MaxPutsKinds, SeqProcs,
                {<<"audio", "0">>, <<"progressive", "0">>, <<"adaptive", "0">>},
                FormatTypes, {FALSE})

DownloadsEnv == Env({"rich"}, MaxPutsDownloads, ConcProcs,
                    {<<"adaptive", "0">>, <<"adaptive", "1">>}, {"mp3"}, {FALSE})

PutsEnv == Env({"rich"}, MaxPutsConc, ConcProcs, {}, {}, {FALSE})

CacheEnv == Env(CacheUrls, MaxPutsCache, SeqProcs,
                {<<"audio", "0">>, <<"adaptive", "0">>, <<"video", "0">>}, {"mp3", "avi"}, {FALSE})

-----------------------------------------------------------------------------
(* GET /info: get_video_info, with cache_youtube inlined step by step *)

\* cache_youtube up to video_cache[cache_id] = yt
CacheYoutubeInsert(p, E) ==
    /\ Ready(p)
    /\ next_uuid <= E.maxPuts
    /\ \E url \in E.urls :
         LET yt == YouTube(url)
             r  == [Begin("info") EXCEPT !.url = url]
         IN  IF IsNone(yt)
             THEN /\ req' = [req EXCEPT ![p] = Done(r, InfoError(500))]
                  /\ UNCHANGED <<video_cache, next_uuid, inserted>>
             ELSE /\ video_cache' = DictSet(video_cache, next_uuid, yt)
                  /\ next_uuid' = next_uuid + 1
                  /\ inserted' = Append(inserted, next_uuid)
                  /\ req' = [req EXCEPT ![p] =
                        [r EXCEPT !.pc = "cache_evict", !.cache_id = next_uuid,
                                  !.inserted_len = Len(video_cache')]]
    /\ UNCHANGED <<disk, pinned>>

\* the rest of cache_youtube, which no other request interrupts here:
\* if len(video_cache) > 10: oldest_key = next(iter(video_cache));
\* del video_cache[oldest_key]
CacheYoutubeEvict(p) ==
    /\ req[p].pc = "cache_evict"
    /\ IF NeedsEvict(video_cache)
       THEN /\ video_cache' = DictDel(video_cache, OldestKey(video_cache))
            /\ req' = [req EXCEPT ![p] =
                  [@ EXCEPT !.pc = "info_read", !.oldest_key = OldestKey(video_cache),
                            !.removed = @ + Len(video_cache) - Len(video_cache')]]
       ELSE /\ req' = [req EXCEPT ![p] = [@ EXCEPT !.pc = "info_read"]]
            /\ UNCHANGED video_cache
    /\ UNCHANGED <<disk, next_uuid, inserted, pinned>>

\* the same lines of cache_youtube when other requests run in between:
\* if len(video_cache) > 10:
CacheYoutubeCheck(p) ==
    /\ req[p].pc = "cache_evict"
    /\ req' = [req EXCEPT ![p] =
          [@ EXCEPT !.pc = IF NeedsEvict(video_cache) THEN "cache_choose" ELSE "info_read"]]
    /\ UNCHANGED <<video_cache, disk, next_uuid, inserted, pinned>>

\* oldest_key = next(iter(video_cache)); StopIteration on an empty dict
CacheYoutubeChoose(p) ==
    /\ req[p].pc = "cache_choose"
    /\ req' = [req EXCEPT ![p] =
          IF video_cache = <<>>
          THEN Done(@, InfoError(500))
          ELSE [@ EXCEPT !.pc = "cache_del", !.oldest_key = OldestKey(video_cache)]]
    /\ UNCHANGED <<video_cache, disk, next_uuid, inserted, pinned>>

\* del video_cache[oldest_key]; KeyError when the key is gone
CacheYoutubeDel(p) ==
    /\ req[p].pc = "cache_del"
    /\ IF HasKey(video_cache, req[p].oldest_key)
       THEN /\ video_cache' = DictDel(video_cache, req[p].oldest_key)
            /\ req' = [req EXCEPT ![p] =
                  [@ EXCEPT !.pc = "info_read",
                            !.removed = @ + Len(video_cache) - Len(video_cache')]]
       ELSE /\ req' = [req EXCEPT ![p] = Done(@, InfoError(500))]
            /\ UNCHANGED video_cache
    /\ UNCHANGED <<disk, next_uuid, inserted, pinned>>

\* the rest of get_video_info: look the handle up, read its metadata
GetVideoInfo(p) ==
    /\ req[p].pc = "info_read"
    /\ LET yt == get_cached_youtube(req[p].cache_id) IN
         /\ UNCHANGED video_cache
         /\ req' = [req EXCEPT ![p] =
               IF IsNone(yt) THEN Done(@, InfoError(500))
               ELSE IF ~yt.meta_ok THEN Done(@, InfoError(500))
               ELSE Done([@ EXCEPT !.available_formats = AvailableFormats(yt)], 200)]
    /\ UNCHANGED <<disk, next_uuid, inserted, pinned>>

-----------------------------------------------------------------------------
(* GET /formats *)

GetFormatOptions(p, E) ==
    /\ Ready(p)
    /\ \E cache_id \in ClientIds, format_type \in E.format_types :
         \E pin \in (IF pinned = NoPin /\ HasKey(video_cache, cache_id)
                         /\ Lower(format_type) \in {"mp3", "mp4"} THEN E.pins ELSE {FALSE}) :
         LET yt == get_cached_youtube(cache_id)
             r  == [Begin("formats") EXCEPT !.cache_id = cache_id,
                                            !.format_type = format_type]
             ok == ~IsNone(yt) /\ Lower(format_type) \in {"mp3", "mp4"}
             options == FormatOptions(yt, format_type)
         IN  /\ video_cache' = CacheAfterGet(video_cache, cache_id)
             /\ req' = [req EXCEPT ![p] =
                   IF IsNone(yt) THEN Done(r, FormatsError(404))
                   ELSE IF ok THEN Done([r EXCEPT !.options = options], 200)
                   ELSE Done(r, FormatsError(400))]
             /\ pinned' = IF ok /\ pin /\ pinned = NoPin
                          THEN [cache_id |-> cache_id, format_type |-> format_type,
                                options |-> options, puts |-> Len(inserted)]
                          ELSE pinned
    /\ UNCHANGED <<disk, next_uuid, inserted>>

-----------------------------------------------------------------------------
(* GET /cache *)

GetCacheInfo(p) ==
    /\ Ready(p)
    /\ req' = [req EXCEPT ![p] = Done([Begin("cache") EXCEPT !.keys = Keys(video_cache)], 200)]
    /\ UNCHANGED <<video_cache, disk, next_uuid, inserted, pinned>>

-----------------------------------------------------------------------------
(* GET /download *)

\* os.remove(path) / writing a file
RemoveNone(files, path) == files

RemoveFile(files, path) == files \ {path}

WriteFile(files, path) == files \cup {path}

\* os.rename(src, dst)
RenameFile(files, src, dst) == (files \ {src}) \cup {dst}

\* download_selected up to the first download: look the handle up, parse
\* the option id, pick the stream; audio and progressive options are
\* downloaded and answered here
DownloadSelected(p, E) ==
    /\ Ready(p)
    /\ \E cache_id \in ClientIds, option_id \in E.option_ids :
         LET yt    == get_cached_youtube(cache_id)
             r     == [Begin("download") EXCEPT !.cache_id = cache_id,
                                                !.option_id = option_id]
             fail(rr, status) ==
                 /\ req' = [req EXCEPT ![p] = Done(rr, DownloadError(status))]
                 /\ UNCHANGED disk
         IN  /\ video_cache' = CacheAfterGet(video_cache, cache_id)
             /\ IF IsNone(yt) THEN fail(r, 404)
                \* option_type, index = option_id.split('_'); index = int(index)
                ELSE IF Len(option_id) # 2 THEN fail(r, 500)
                ELSE IF ~ParseInt(option_id[2]).ok THEN fail(r, 500)
                \* yt.title
                ELSE IF ~yt.meta_ok THEN fail(r, 500)
                ELSE IF option_id[1] \notin {"audio", "progressive", "adaptive"}
                THEN fail(r, 400)
                ELSE
                  LET option_type == option_id[1]
                      sel == PyIndex(DownloadStreams(yt, option_type), ParseInt(option_id[2]).val)
                      rs  == [r EXCEPT !.selected = sel.val]
                      file_path == DownloadPath(yt, sel.val, "")
                  IN  IF ~sel.ok THEN fail(r, 500)
                      ELSE IF option_type = "audio"
                      THEN \/ fail(rs, 500)
                           \/ /\ disk' = RenameFile(WriteFile(disk, file_path),
                                                    file_path, Mp3Path(file_path))
                              /\ req' = [req EXCEPT ![p] =
                                    Done([rs EXCEPT !.file = Mp3Path(file_path)], 200)]
                      ELSE IF option_type = "progressive"
                      THEN \/ fail(rs, 500)
                           \/ /\ disk' = WriteFile(disk, file_path)
                              /\ req' = [req EXCEPT ![p] =
                                    Done([rs EXCEPT !.file = file_path], 200)]
                      ELSE IF ~BestAudioStream(yt).ok THEN fail(rs, 500)
                      ELSE /\ req' = [req EXCEPT ![p] =
                                 [rs EXCEPT !.pc = "dl_video", !.yt = yt,
                                            !.audio_stream = BestAudioStream(yt).val]]
                           /\ UNCHANGED disk
    /\ UNCHANGED <<next_uuid, inserted, pinned>>

\* selected_video_stream.download(filename_prefix="temp_video_")
DownloadVideo(p) ==
    /\ req[p].pc = "dl_video"
    /\ \E net_ok \in BOOLEAN :
         LET video_path == DownloadPath(req[p].yt, req[p].selected, "temp_video_") IN
           IF net_ok
           THEN /\ disk' = WriteFile(disk, video_path)
                /\ req' = [req EXCEPT ![p] = [@ EXCEPT !.pc = "dl_audio",
                                                       !.video_path = video_path]]
           ELSE /\ req' = [req EXCEPT ![p] = Done(@, DownloadError(500))]
                /\ UNCHANGED disk
    /\ UNCHANGED <<video_cache, next_uuid, inserted, pinned>>

\* audio_stream.download(filename_prefix="temp_audio_"), then the output path
DownloadAudio(p) ==
    /\ req[p].pc = "dl_audio"
    /\ \E net_ok \in BOOLEAN :
         LET audio_path == DownloadPath(req[p].yt, req[p].audio_stream, "temp_audio_") IN
           IF net_ok
           THEN /\ disk' = WriteFile(disk, audio_path)
                /\ req' = [req EXCEPT ![p] =
                      [@ EXCEPT !.pc = "merge", !.audio_path = audio_path,
                                !.output_path = OutputPath(req[p].yt, req[p].selected)]]
           ELSE /\ req' = [req EXCEPT ![p] = Done(@, DownloadError(500))]
                /\ UNCHANGED disk
    /\ UNCHANGED <<video_cache, next_uuid, inserted, pinned>>

\* what ffmpeg does: "ok" (exit 0, output written), "failed" (non-zero exit)
\* or "missing" (the binary cannot be run);
\* it cannot succeed without both inputs
FfmpegRuns(files, video_path, audio_path) ==
    IF video_path \in files /\ audio_path \in files
    THEN {"ok", "failed", "missing"} ELSE {"failed", "missing"}

\* if merge_video_audio(video_path, audio_path, output_path): ...
\* else: raise HTTPException(500)
MergeVideoAudio(p) ==
    /\ req[p].pc = "merge"
    /\ \E ffmpeg \in FfmpegRuns(disk, req[p].video_path, req[p].audio_path) :
         LET r == [req[p] EXCEPT !.merges = @ + 1, !.ffmpeg = ffmpeg] IN
           IF ffmpeg = "missing"
           THEN /\ req' = [req EXCEPT ![p] = Done(r, DownloadError(500))]
                /\ UNCHANGED disk
           ELSE /\ disk' = IF ffmpeg = "ok"
                           THEN WriteFile(disk, req[p].output_path) ELSE disk
                /\ req' = [req EXCEPT ![p] =
                      IF merge_video_audio(ffmpeg) THEN [r EXCEPT !.pc = "rm_video"]
                      ELSE Done(r, DownloadError(500))]
    /\ UNCHANGED <<video_cache, next_uuid, inserted, pinned>>

\* os.remove(video_path); FileNotFoundError when the file is gone
RemoveVideo(p) ==
    /\ req[p].pc = "rm_video"
    /\ IF req[p].video_path \in disk
       THEN /\ disk' = RemoveFile(disk, req[p].video_path)
            /\ req' = [req EXCEPT ![p] = [@ EXCEPT !.pc = "rm_audio"]]
       ELSE /\ req' = [req EXCEPT ![p] = Done(@, DownloadError(500))]
            /\ UNCHANGED disk
    /\ UNCHANGED <<video_cache, next_uuid, inserted, pinned>>

\* os.remove(audio_path); return FileResponse(output_path)
RemoveAudio(p) ==
    /\ req[p].pc = "rm_audio"
    /\ IF req[p].audio_path \in disk
       THEN /\ disk' = RemoveFile(disk, req[p].audio_path)
            /\ req' = [req EXCEPT ![p] = Done([@ EXCEPT !.file = req[p].output_path], 200)]
       ELSE /\ req' = [req EXCEPT ![p] = Done(@, DownloadError(500))]
            /\ UNCHANGED disk
    /\ UNCHANGED <<video_cache, next_uuid, inserted, pinned>>

-----------------------------------------------------------------------------
(* Specifications *)

NextIn(E) ==
    \E p \in E.procs :
        \/ CacheYoutubeInsert(p, E)
        \/ CacheYoutubeEvict(p)
        \/ GetVideoInfo(p)
        \/ GetFormatOptions(p, E)
        \/ GetCacheInfo(p)
        \/ DownloadSelected(p, E)
        \/ DownloadVideo(p)
        \/ DownloadAudio(p)
        \/ MergeVideoAudio(p)
        \/ RemoveVideo(p)
        \/ RemoveAudio(p)

\* requests one after the other, every kind of video, option id and format
Next == NextIn(FullEnv)
Spec == Init /\ [][Next]_vars

\* requests one after the other, enough /info requests to fill the cache
NextCache == NextIn(CacheEnv)
SpecCache == Init /\ [][NextCache]_vars

\* requests one after the other, /formats answers remembered in pinned
NextFormats == NextIn(FormatsEnv)
SpecFormats == Init /\ [][NextFormats]_vars

\* requests one after the other, videos that lack a kind of stream
NextKinds == NextIn(KindsEnv)
SpecKinds == Init /\ [][NextKinds]_vars

\* requests of two worker threads interleaved step by step, adaptive
\* downloads of one video
NextDownloads == NextIn(DownloadsEnv)
SpecDownloads == Init /\ [][NextDownloads]_vars

\* /info requests of two worker threads interleaved step by step
NextPuts ==
    \E p \in PutsEnv.procs :
        \/ CacheYoutubeInsert(p, PutsEnv)
        \/ CacheYoutubeCheck(p)
        \/ CacheYoutubeChoose(p)
        \/ CacheYoutubeDel(p)
        \/ GetVideoInfo(p)
SpecPuts == Init /\ [][NextPuts]_vars

-----------------------------------------------------------------------------
(* Properties *)

PutInProgress == \E p \in Procs : req[p].pc = "cache_evict"

\* C1: with requests one after the other, whenever no cache_youtube call is
\* in progress the cache holds at most 10 entries; after 11 successful puts
\* exactly 10 remain and the first-inserted id is no longer found.
C1_CacheBound ==
    ~PutInProgress =>
        /\ Len(video_cache) <= CACHE_LIMIT
        /\ Len(inserted) = CACHE_LIMIT + 1 =>
              /\ Len(video_cache) = CACHE_LIMIT
              /\ IsNone(get_cached_youtube(inserted[1]))

C1_Witness ==
    /\ ~PutInProgress
    /\ Len(inserted) = CACHE_LIMIT + 1
    /\ Len(video_cache) = CACHE_LIMIT

\* C2: after k successful puts, with any reads in between, the cache holds
\* exactly the min(k, 10) most recently inserted ids in insertion order.
C2_StrictFifo ==
    ~PutInProgress => Keys(video_cache) = LastN(inserted, CACHE_LIMIT)

\* a download read the cache (its file is on disk) and two evictions followed
C2_Witness ==
    /\ req[1].op = "info" /\ req[1].pc = "done" /\ req[1].status = 200
    /\ disk # {}
    /\ Len(inserted) = CACHE_LIMIT + 2
    /\ Keys(video_cache) = LastN(inserted, CACHE_LIMIT)

FinishedRead(p) == req[p].pc = "done" /\ req[p].op \in {"formats", "download"}

\* C3 (as claimed): a /formats or /download request whose cache_id is not in
\* the cache is answered with status 404.
C3_UnknownIdIs404 ==
    \A p \in Procs :
        FinishedRead(p) /\ ~HasKey(video_cache, req[p].cache_id) => req[p].status = 404

\* the option of a /formats listing that carries the id, as a set
Listed(yt, format_type, option_id) ==
    {o \in {FormatOptions(yt, format_type)[i] : i \in DOMAIN FormatOptions(yt, format_type)} :
        o.id = option_id}

\* a /download request that has got past the stream selection
Selecting(p) ==
    /\ req[p].op = "download"
    /\ req[p].pc # "idle"
    /\ HasKey(video_cache, req[p].cache_id)
    /\ get_cached_youtube(req[p].cache_id).meta_ok

\* C4: for a cached handle and an option id that /formats lists for it, a
\* /download with that id selects the stream the listing built the option
\* from (same filter, same descending sort, same index).
C4_DownloadById ==
    \A p \in Procs : \A format_type \in {"mp3", "mp4"} :
        Selecting(p) =>
            \A o \in Listed(get_cached_youtube(req[p].cache_id), format_type, req[p].option_id) :
                req[p].selected.itag = o.itag

\* the second of three audio options was replayed
C4_Witness ==
    /\ Selecting(1)
    /\ req[1].option_id = <<"audio", "1">>
    /\ Listed(get_cached_youtube(req[1].cache_id), "mp3", req[1].option_id) # {}
    /\ req[1].status = 200

SameKind(p) ==
    /\ req[p].pc = "done" /\ req[p].op = "formats"
    /\ pinned # NoPin
    /\ req[p].cache_id = pinned.cache_id
    /\ Lower(req[p].format_type) = Lower(pinned.format_type)
    /\ HasKey(video_cache, req[p].cache_id)

\* C5: a /formats request with the cache id and format kind of an earlier
\* one, the handle still being cached, returns the same options in the same
\* order with the same ids, whatever requests ran in between.
C5_SameOptions ==
    \A p \in Procs :
        SameKind(p) => req[p].status = 200 /\ req[p].options = pinned.options

\* the second request came after another /info
C5_Witness ==
    /\ SameKind(1)
    /\ Len(inserted) > pinned.puts
    /\ Len(req[1].options) > 1

AdaptiveSuccess(p) ==
    /\ req[p].pc = "done" /\ req[p].op = "download" /\ req[p].status = 200
    /\ req[p].option_id[1] = "adaptive"

\* C6: after an adaptive /download that returns a file, with no other
\* download running, the two temporary inputs are gone and the merged output
\* exists.
C6_MergeCleansUp ==
    \A p \in Procs :
        AdaptiveSuccess(p) =>
            /\ req[p].video_path \notin disk
            /\ req[p].audio_path \notin disk
            /\ req[p].output_path \in disk
            /\ req[p].file = req[p].output_path

C6_Witness ==
    /\ AdaptiveSuccess(1)
    /\ req[1].merges = 1
    /\ req[1].video_path # NoPath /\ req[1].audio_path # NoPath

\* C7 (as claimed): on a cached id, a /formats request with a format type
\* other than mp3/mp4 and a /download request with a type tag other than
\* audio/progressive/adaptive are answered with status 400.
C7_InvalidIs400 ==
    \A p \in Procs :
        /\ req[p].pc = "done"
        /\ HasKey(video_cache, req[p].cache_id)
        /\ \/ req[p].op = "formats" /\ Lower(req[p].format_type) \notin {"mp3", "mp4"}
           \/ /\ req[p].op = "download"
              /\ Len(req[p].option_id) = 2
              /\ req[p].option_id[1] \notin {"audio", "progressive", "adaptive"}
        => req[p].status = 400

MergeFailed(p) ==
    /\ req[p].pc = "done" /\ req[p].op = "download"
    /\ req[p].ffmpeg \in {"failed", "missing"}

\* C8: when the external merge fails during an adaptive /download, the
\* request ends with status 500, returns no file, and the merge has been
\* invoked exactly once.
C8_MergeFailureFatal ==
    \A p \in Procs :
        /\ req[p].merges <= 1
        /\ MergeFailed(p) =>
              req[p].status = 500 /\ req[p].file = NoPath /\ req[p].merges = 1

C8_Witness == MergeFailed(1) /\ req[1].ffmpeg = "failed" /\ req[1].status = 500

PutReturned(p) == req[p].op = "info" /\ req[p].pc = "info_read"

\* C9: when cache_youtube returns, its id was never issued before, the new
\* entry is in the cache, and the call removed at most one entry, and only
\* because the size after the insertion exceeded 10.
C9_PutContract ==
    \A p \in Procs :
        PutReturned(p) =>
            /\ Cardinality({i \in DOMAIN inserted : inserted[i] = req[p].cache_id}) = 1
            /\ HasKey(video_cache, req[p].cache_id)
            /\ req[p].removed <= 1
            /\ req[p].removed = 1 => req[p].inserted_len > CACHE_LIMIT
            /\ Len(video_cache) = req[p].inserted_len - req[p].removed

C9_Witness == PutReturned(1) /\ req[1].removed = 1

ReadStep ==
    \E p \in Procs : req'[p] # req[p] /\ req'[p].op \in {"formats", "download", "cache"}

\* C10: a step of a /formats, /download or /cache request, successful or
\* not, leaves the cached ids and their order unchanged.
C10_OnlyPutChangesCache == [][ReadStep => video_cache' = video_cache]_vars

\* a cached id served /formats after evictions had taken place
C10_Witness ==
    /\ req[1].pc = "done" /\ req[1].op = "formats" /\ req[1].status = 200
    /\ Len(inserted) > CACHE_LIMIT
    /\ HasKey(video_cache, req[1].cache_id)

\* an adaptive /download that has fetched both of its inputs
FetchedBoth(p) ==
    /\ req[p].op = "download"
    /\ req[p].video_path # NoPath /\ req[p].audio_path # NoPath

\* the index an option id of two fields names
IndexOf(option_id) == ParseInt(option_id[2]).val

\* C11 (as claimed): an adaptive /download fetches the highest-resolution
\* video-only stream and the highest-bitrate audio-only stream of the handle.
C11_FetchesBestVideo ==
    \A p \in Procs :
        FetchedBoth(p) =>
            /\ \A i \in DOMAIN req[p].yt.streams :
                  req[p].yt.streams[i].kind = "video" =>
                      req[p].yt.streams[i].resolution <= req[p].selected.resolution
            /\ \A i \in DOMAIN req[p].yt.streams :
                  req[p].yt.streams[i].kind = "audio" =>
                      req[p].yt.streams[i].abr <= req[p].audio_stream.abr

\* the mp4 video-only streams of a handle with a resolution above r / not below r
Mp4VideoAbove(yt, r) ==
    {i \in DOMAIN yt.streams :
        /\ yt.streams[i].kind = "video" /\ yt.streams[i].ext = "mp4"
        /\ yt.streams[i].resolution > r}
Mp4VideoFrom(yt, r) ==
    {i \in DOMAIN yt.streams :
        /\ yt.streams[i].kind = "video" /\ yt.streams[i].ext = "mp4"
        /\ yt.streams[i].resolution >= r}

\* C11 (amended): an adaptive /download with a listed id adaptive_i fetches
\* the mp4 video-only stream of rank i in descending resolution (the best one
\* only for i = 0) and the highest-bitrate audio-only stream of the handle.
C11_FetchesOptionVideoBestAudio ==
    \A p \in Procs :
        FetchedBoth(p) /\ IndexOf(req[p].option_id) >= 0 =>
            /\ req[p].selected.kind = "video" /\ req[p].selected.ext = "mp4"
            /\ Cardinality(Mp4VideoAbove(req[p].yt, req[p].selected.resolution))
                  <= IndexOf(req[p].option_id)
            /\ Cardinality(Mp4VideoFrom(req[p].yt, req[p].selected.resolution))
                  > IndexOf(req[p].option_id)
            /\ req[p].audio_stream.kind = "audio"
            /\ \A i \in DOMAIN req[p].yt.streams :
                  req[p].yt.streams[i].kind = "audio" =>
                      req[p].yt.streams[i].abr <= req[p].audio_stream.abr

\* both inputs of adaptive_1 are fetched, the merge is next
C11_Witness ==
    /\ FetchedBoth(1)
    /\ req[1].pc = "merge"
    /\ req[1].option_id = <<"adaptive", "1">>

\* the options of one type in a /formats answer, in the order of the answer
OfType(options, type) == SelectSeq(options, LAMBDA o : o.type = type)

FormatsAnswered(p) ==
    req[p].pc = "done" /\ req[p].op = "formats" /\ req[p].status = 200

\* C14: in every /formats answer the options of each type carry the ids
\* type_0 .. type_{k-1} in this order, and their quality (abr for audio,
\* resolution for progressive and adaptive) never increases along the list.
C14_PositionalDescending ==
    \A p \in Procs : \A type \in {"audio", "progressive", "adaptive"} :
        FormatsAnswered(p) =>
            LET os == OfType(req[p].options, type) IN
              /\ \A i \in DOMAIN os : os[i].id = <<type, Str(i - 1)>>
              /\ \A i, j \in DOMAIN os : i < j => os[i].quality >= os[j].quality

\* three audio options, the last one of lower quality than the first
C14_Witness ==
    /\ FormatsAnswered(1)
    /\ Len(OfType(req[1].options, "audio")) = 3
    /\ OfType(req[1].options, "audio")[1].quality > OfType(req[1].options, "audio")[3].quality

InfoFailed(p) ==
    req[p].pc = "done" /\ req[p].op = "info" /\ req[p].status # 200

\* C15 (as claimed): an /info request that ends in an error answers 500 and
\* leaves the cache with the entries it had before: the request has inserted
\* nothing and evicted nothing.
C15_FailedInfoNoTrace ==
    \A p \in Procs :
        InfoFailed(p) =>
            /\ req[p].status = 500
            /\ ~HasKey(video_cache, req[p].cache_id)
            /\ req[p].inserted_len = 0
            /\ req[p].removed = 0

DownloadReturnedFile(p) ==
    req[p].pc = "done" /\ req[p].op = "download" /\ req[p].status = 200

\* the option ids /formats lists for a handle
ListedIds(yt) ==
    {FormatOptions(yt, "mp3")[i].id : i \in DOMAIN FormatOptions(yt, "mp3")}
    \cup {FormatOptions(yt, "mp4")[i].id : i \in DOMAIN FormatOptions(yt, "mp4")}

\* C17 (as claimed): /download on a cached handle returns a file only when
\* the option id is one of the ids /formats lists for the handle; an index
\* that is negative, too large or malformed ends in an error without a file.
C17_OnlyListedIdsDownload ==
    \A p \in Procs :
        DownloadReturnedFile(p) =>
            /\ req[p].file # NoPath
            /\ req[p].option_id \in ListedIds(get_cached_youtube(req[p].cache_id))

AdaptiveEnded(p) ==
    /\ req[p].pc = "done" /\ req[p].op = "download"
    /\ req[p].video_path # NoPath

\* C18 (as claimed): an adaptive /download that has written one or both of
\* its temporary inputs and has then ended, with the merged file or with an
\* error, leaves neither temporary input on disk.
C18_NoTempLeak ==
    \A p \in Procs :
        AdaptiveEnded(p) =>
            /\ req[p].video_path \notin disk
            /\ req[p].audio_path \notin disk

\* the format type is among those /info reports for the handle
ReportedByInfo(yt, format_type) ==
    \E i \in DOMAIN AvailableFormats(yt) : AvailableFormats(yt)[i] = Lower(format_type)

\* C16 (as claimed): for a cached handle, /formats returns a non-empty list
\* for exactly the format types that /info reports in available_formats.
C16_InfoAndFormatsAgree ==
    \A p \in Procs :
        FormatsAnswered(p) /\ HasKey(video_cache, req[p].cache_id) =>
            (ReportedByInfo(get_cached_youtube(req[p].cache_id), req[p].format_type)
                <=> req[p].options # <<>>)

\* the temporary inputs a running adaptive /download has written and has
\* not yet removed itself
TempsInUse(p) ==
    (IF req[p].pc \in {"dl_audio", "merge", "rm_video"} THEN {req[p].video_path} ELSE {})
    \cup (IF req[p].pc \in {"merge", "rm_video", "rm_audio"} THEN {req[p].audio_path} ELSE {})

\* C12 (as claimed): adaptive /download requests that run at the same time
\* use temporary paths of their own, so a temporary input a request has
\* written and still needs is on disk until the request removes it itself.
C12_NoTempCollision ==
    /\ \A p \in Procs : TempsInUse(p) \subseteq disk
    /\ \A p, q \in Procs : p # q => TempsInUse(p) \cap TempsInUse(q) = {}

AllFinished == \A p \in Procs : Ready(p)

\* a cache_youtube call that raised KeyError on del video_cache[oldest_key]
PutLostItsKey(p) ==
    /\ req[p].pc = "done" /\ req[p].op = "info" /\ req[p].status = 500
    /\ req[p].oldest_key # NoId /\ req[p].removed = 0

\* C13 (as claimed): with /info requests running at the same time, their
\* steps interleaved in any way, once all requests have finished the cache
\* holds at most 10 entries and no put has failed because another put
\* removed the key it had chosen.
C13_ConcurrentCacheBound ==
    AllFinished =>
        /\ Len(video_cache) <= CACHE_LIMIT
        /\ \A p \in Procs : ~PutLostItsKey(p)

====
